---- MODULE Spec2Model ----
(***************************************************************************)
(* FrequencyCounter (ATmega32U4, Timer0): the mode controller, the gate    *)
(* timer coordinator, the counter-overflow / period handler, the external  *)
(* gate edge handler and the two reads, as a state machine of one          *)
(* mainline and its interrupt handlers.                                    *)
(*                                                                         *)
(* Interrupt handlers run with interrupts masked (AVR ISR), so each is one *)
(* atomic action; the gate close, which calls interrupts() half way, takes *)
(* a pending overflow handler in at a place that the action chooses.  The  *)
(* mainline functions are split at the points where an interrupt can come  *)
(* between two accesses, or two bytes, of the shared variables.            *)
(***************************************************************************)
EXTENDS Integers, Sequences, FiniteSets, TLC

(***************************************************************************)
(* Program constants                                                       *)
(***************************************************************************)
FCEXTNO == 6
FCPRDNO == 7
FCMODEMAX == 9
PERIODTIMOUT == 5000
FCTIME == 10
NoSignal == 1
TooFast == 999999
PeriodGuard == 24
PeriodDP == 5
PeriodScale == 100000
ClockOn == 6
CounterMod == 256
MicrosRes == 4

HzDigits == 11

(***************************************************************************)
(* Bounds of the model                                                     *)
(***************************************************************************)
\* single input pulses the model lets the counter register hold
MaxLow == 1
\* counter wraps the model lets one gate interval accumulate
MaxWraps == 1
\* ticks before expiry at which the model stops compressing idle ticks
TickWindow == 1
\* mode changes the model follows from reset
MaxModes == 2
\* unread results the history counts, and input pulses it counts beyond the
\* PrdCnt+1 of a first measurement
MaxUnread == 2
MaxBeyond == 1
\* gate closes, or captures, that are told apart after a mode is armed
MaxCloses == 2
\* input pulses that are told apart after a reload
MaxSpan == 111

\* the largest count whose printed value the properties spell out
MaxCount == 8000000
\* raw results the formatted read is applied to on its own: zero, the
\* sentinel, periods around 24*PrdCnt and counts and periods up to 100 s
RawValues == {0, 1, 4, 24, 28, 240, 244, 500, 1000, 1004, 2400, 2404, 12345,
              65536, 1000000, 5000000, 100000000}

\* arguments of mode(): sbyte values around and inside 0..FCMODEMAX
ModeArgs == {-128, -1} \cup (0..FCMODEMAX) \cup {10, 127}
\* input pulses arriving between two interrupts: one, one averaging span, one wrap
PulseBursts == {1, 10, 100, CounterMod}
\* the instants at which the model samples the microsecond clock
ClockStart == -1000
ClockOffsets == {0, 1000, 2000}
Pins == {"gate", "other"}

(***************************************************************************)
(* unsigned long: a 32-bit word is held as the integer of -2^31 .. 2^31-1  *)
(* congruent to it modulo 2^32, so a word below 2^31 is held as itself.    *)
(* The arithmetic works on 16-bit halves and wraps as the hardware does.   *)
(***************************************************************************)
H16 == 65536
Hi(a) == (a \div H16) % H16
Lo(a) == a % H16
Word(hi, lo) == (IF hi % H16 >= H16 \div 2 THEN (hi % H16) - H16 ELSE hi % H16) * H16 + lo

Add32(a, b) == LET lo == Lo(a) + Lo(b) IN Word(Hi(a) + Hi(b) + (lo \div H16), lo % H16)
Sub32(a, b) == LET lo == Lo(a) - Lo(b) IN Word(Hi(a) - Hi(b) + (lo \div H16), lo % H16)
\* a * k for a small k
Mul32(a, k) == LET lo == Lo(a) * k IN Word(Hi(a) * k + (lo \div H16), lo % H16)
\* a > k and a <= k (unsigned) for 0 <= k < 2^31
UGt(a, k) == a < 0 \/ a > k

\* a / d and a % d (unsigned) for a small d: long division over the four bytes
UDivMod(a, d) ==
    LET c3 == Hi(a) \div 256
        c2 == (c3 % d) * 256 + (Hi(a) % 256)
        c1 == (c2 % d) * 256 + (Lo(a) \div 256)
        c0 == (c1 % d) * 256 + (Lo(a) % 256)
    IN [q |-> Word((c3 \div d) * 256 + (c2 \div d), (c1 \div d) * 256 + (c0 \div d)),
        r |-> c0 % d]
UDiv(a, d) == UDivMod(a, d).q
UMod(a, d) == UDivMod(a, d).r

(***************************************************************************)
(* unsigned long long, as far as the period conversion needs it: the       *)
(* division of a dividend given by its decimal digits by a word, one       *)
(* digit at a time.  The remainder is kept as 16-bit halves rh, rl; the    *)
(* quotient is kept in 32 bits, which is what is left of it once it is     *)
(* assigned to an unsigned long.                                           *)
(***************************************************************************)
RECURSIVE Zeros(_)
Zeros(n) == IF n = 0 THEN <<>> ELSE <<0>> \o Zeros(n - 1)

\* the halves of v * k for a digit k, the upper one with its carry
TimesHi(v, k) == Hi(v) * k + ((Lo(v) * k) \div H16)
TimesLo(v, k) == (Lo(v) * k) % H16

\* v * k <= th * 2^16 + tl
Goes(v, k, th, tl) == TimesHi(v, k) < th \/ (TimesHi(v, k) = th /\ TimesLo(v, k) <= tl)

\* the next digit of the dividend brought down
DivStep(st, v) ==
    LET low == 10 * st.rl + Head(st.rest)
        th == 10 * st.rh + (low \div H16)
        tl == low % H16
        k == CHOOSE j \in 0..9 : Goes(v, j, th, tl) /\ ~Goes(v, j + 1, th, tl)
        bl == tl - TimesLo(v, k)
    IN [q |-> Add32(Mul32(st.q, 10), k),
        rh |-> th - TimesHi(v, k) + (bl \div H16),
        rl |-> bl % H16,
        rest |-> Tail(st.rest)]

RECURSIVE DivLoop(_, _)
DivLoop(st, v) == IF st.rest = <<>> THEN st.q ELSE DivLoop(DivStep(st, v), v)

\* the low 32 bits of (the number with these digits) / v
DivDigits(digits, v) == DivLoop([q |-> 0, rh |-> 0, rl |-> 0, rest |-> digits], v)

RECURSIVE Digits32(_)
\* the decimal digits of a word, none for zero
Digits32(a) ==
    IF a = 0 THEN <<>> ELSE Append(Digits32(UDiv(a, 10)), UMod(a, 10))

(***************************************************************************)
(* Strings: a C string is the sequence of its characters                   *)
(***************************************************************************)
DigitChars == <<"0", "1", "2", "3", "4", "5", "6", "7", "8", "9">>
Digit(d) == DigitChars[d + 1]

\* sprintf("%lu", v)
ULtoa(v) ==
    IF v = 0 THEN <<"0">> ELSE [i \in 1..Len(Digits32(v)) |-> Digit(Digits32(v)[i])]

RECURSIVE ZeroPad(_, _)
ZeroPad(s, w) == IF Len(s) >= w THEN s ELSE ZeroPad(<<"0">> \o s, w)

\* sprintf("%09lu", v)
Pad9(v) == ZeroPad(ULtoa(v), 9)

RECURSIVE CopyFwd(_, _, _)
\* strcpy(dst, src) inside one buffer, byte by byte from the front; index
\* Len(buf)+1 is the terminator, after which the copy stops
CopyFwd(buf, dst, src) ==
    IF src > Len(buf) THEN SubSeq(buf, 1, dst - 1)
    ELSE CopyFwd([buf EXCEPT ![dst] = buf[src]], dst + 1, src + 1)

\* variant: the digits are not moved up to the point
DPStrUnmoved(v, dp) ==
    IF dp = 0 THEN <<>>
    ELSE [Pad9(v) EXCEPT ![1] = "."]

\* DPStr(st, Val, DP): "." and the last DP digits of Val
DPStr(v, dp) ==
    IF dp = 0 THEN <<>>
    ELSE LET st == Pad9(v)
             cp == CopyFwd(st, 2, Len(st) - dp + 1)
         IN [cp EXCEPT ![1] = "."]

RECURSIVE Log10I(_)
\* integer part of log10, as the loop computes it
Log10I(v) == IF v > 1 THEN 1 + Log10I(v \div 10) ELSE 0

RECURSIVE Pow10(_)
Pow10(n) == IF n = 0 THEN 1 ELSE 10 * Pow10(n - 1)

(***************************************************************************)
(* The scaling of read(char*, bool): the value, the scale and the number   *)
(* of decimals that are printed, from the raw value and the mode           *)
(***************************************************************************)
\* variant: the guard lets a period of exactly 24*PrdCnt through
PeriodInvertibleFrom(rdy, v, n) == rdy # 0 /\ UGt(v, PeriodGuard * n - 1)

\* variant: the guard is 23*PrdCnt
PeriodInvertibleAbove23(rdy, v, n) == rdy # 0 /\ UGt(v, (PeriodGuard - 1) * n)

\* _FreqCtrReady && Val>(24*PrdCnt)
PeriodInvertible(rdy, v, n) == rdy # 0 /\ UGt(v, PeriodGuard * n)

\* variant: the dividend one decimal place short
PeriodToHzTenth(v, n) == DivDigits(Digits32(n) \o Zeros(HzDigits - 1), v)

\* (100000000000ULL*PrdCnt)/Val, assigned to an unsigned long
PeriodToHz(v, n) == DivDigits(Digits32(n) \o Zeros(HzDigits), v)

\* *((byte *)&Val)=0
ClearLowByte(v) == Sub32(v, v % 256)

PeriodScaled(v, n, rdy) ==
    IF PeriodInvertible(rdy, v, n)
    THEN [val |-> PeriodToHz(v, n), scale |-> PeriodScale, dp |-> PeriodDP]
    ELSE IF v = NoSignal
         THEN [val |-> ClearLowByte(v), scale |-> PeriodScale, dp |-> PeriodDP]
         ELSE [val |-> TooFast, scale |-> 1, dp |-> 0]

RECURSIVE TimesTen(_, _)
\* while (dp<0) { Val*=10; dp++; }
TimesTen(v, k) == IF k = 0 THEN v ELSE TimesTen(Mul32(v, 10), k - 1)

\* variant: the decimals counted from a gate of 100 ms instead of 1 s
CountScaledFromTenth(v, psInit) ==
    LET dp == Log10I(psInit) - 1
    IN IF dp < 0
       THEN [val |-> TimesTen(v, -dp), scale |-> 1, dp |-> 0]
       ELSE [val |-> v, scale |-> psInit \div 10, dp |-> dp]

CountScaled(v, psInit) ==
    LET dp == Log10I(psInit) - 2
    IN IF dp < 0
       THEN [val |-> TimesTen(v, -dp), scale |-> 1, dp |-> 0]
       ELSE [val |-> v, scale |-> psInit \div 100, dp |-> dp]

Scaled(gt, psInit, n, v, rdy) ==
    IF gt >= FCPRDNO THEN PeriodScaled(v, n, rdy) ELSE CountScaled(v, psInit)

\* the string read(char*, bool) leaves in St
Format(gt, psInit, n, v, rdy) ==
    LET s == Scaled(gt, psInit, n, v, rdy)
    IN ULtoa(UDiv(s.val, s.scale)) \o DPStr(s.val, s.dp)

(***************************************************************************)
(* The mode table of mode(sbyte)                                           *)
(***************************************************************************)
\* variant: the mode codes taken as already in the order of the gate times
SeqGateAsGiven(g) == IF g = FCEXTNO THEN 1 ELSE g

\* 6 (external gate) counts as the 1 s gate; 1,2,3 become 3,1,2
SeqGate(g) ==
    LET g1 == IF g = FCEXTNO THEN 1 ELSE g
    IN IF g1 # 0 /\ g1 < 4 THEN (IF g1 - 1 = 0 THEN 3 ELSE g1 - 1) ELSE g1

\* variant: only the period modes get a prescale
DivisorPeriodOnly(g) == IF g >= FCPRDNO THEN PERIODTIMOUT \div 10 ELSE 0

\* the prescale (ticks per gate) of a mode
Divisor(g) ==
    IF g >= FCPRDNO THEN PERIODTIMOUT \div 10
    ELSE IF SeqGate(g) = 0 THEN 0 ELSE Pow10(SeqGate(g) - 1)

\* number of periods averaged
Averages(g) == Pow10(SeqGate(g) - FCPRDNO)

(***************************************************************************)
(* State                                                                   *)
(***************************************************************************)
VARIABLES
    fcGateTime,     \* saved selected gate time (mode code)
    fcprescalInit,  \* the gate time (prescaler) initialization value
    fcprescaler,    \* the gate time (prescaler) counter
    fcOVF,          \* upper bits of the count, or the last capture (period)
    fcResult,       \* the raw value returned to the user
    FreqCtrReady,   \* _FreqCtrReady: 1 after each update, 0 after reading
    PrdCnt,         \* averaging for period measure
    TCCR0B,         \* Timer0 clock select: 0 stopped, 6 external clock
    TCNT0,          \* Timer0 counter register
    TOV0,           \* Timer0 overflow flag (interrupt pending)
    TOIE0,          \* Timer0 overflow interrupt enable
    PCMSK0,         \* pins whose change interrupts
    Changes,        \* <<pins that went low, pins that went high>>
    LastPINB,       \* pins that were high at the last pin change interrupt
    PINB,           \* pins that are high
    usec,           \* what micros() returns now
    window,         \* history: how the period timeout stands (see GateTimeout)
    hist,           \* history: what the input and the handlers have done (see NoHist)
    pc,             \* where the mainline is
    call,           \* the call the mainline is in
    susp,           \* the read suspended in yield() while a mode call runs
    modes,          \* mode changes made since reset
    Val,            \* read's local copy of fcResult
    St,             \* read's string buffer
    ret             \* what the step just taken returned to its caller, if it returned

progVars == <<fcGateTime, fcprescalInit, fcprescaler, fcOVF, fcResult, FreqCtrReady, PrdCnt>>
hwVars == <<TCCR0B, TCNT0, TOV0, TOIE0>>
pinVars == <<PCMSK0, Changes, LastPINB, PINB>>
mainVars == <<pc, call, susp, modes, Val, St>>
vars == <<progVars, hwVars, pinVars, usec, window, hist, mainVars, ret>>

NoCall == [fn |-> "none", arg |-> 0, wait |-> FALSE]
NoRet == [fn |-> "none", arg |-> 0, wait |-> FALSE, val |-> 0, str |-> <<>>, null |-> FALSE]

Returned(c, v, s, n) ==
    [fn |-> c.fn, arg |-> c.arg, wait |-> c.wait, val |-> v, str |-> s, null |-> n]

\* The history that is kept of a run, for the properties that speak of what
\* was counted and published rather than of what the program holds:
\*   wraps   wraps of TCNT0 since it was last set to 0 (counting modes)
\*   edges   input pulses since the mode was armed (period modes)
\*   latest  the value a handler last stored in fcResult
\*   unread  results published since a read last began or mode last reset
\*   batch   the unread results the read last begun has found
\*   given   a waiting read(bool) has returned the result last published
\* It is recorded from the states of InitHist on; from Init it stays as it is.
\* From the states of InitTimes on it also keeps the timing of the handlers:
\*   ticks   10 ms ticks since the mode was armed, the gate last closed or
\*           the input was last captured, up to one more than the divisor
\*   closes  gate closes, or captures of the input, since the mode was
\*           armed, up to MaxCloses
\*   stamp   microseconds from ClockStart to the capture that a later one
\*           is measured from, -1 when there is none
\*   span    input pulses since the counter was last reloaded
\*   fell    the gate line has fallen in the external gate mode since the
\*           mode was armed
NoHist == [on |-> FALSE, wraps |-> 0, edges |-> 0, latest |-> 0, unread |-> 0,
           batch |-> 0, given |-> FALSE,
           timing |-> FALSE, ticks |-> 0, closes |-> 0, stamp |-> -1, span |-> 0,
           fell |-> FALSE]

\* the history after a step that makes it h
Kept(h) == IF hist.on THEN h ELSE hist

\* a handler stores v in fcResult and sets _FreqCtrReady
Published(h, v) ==
    [h EXCEPT !.latest = v, !.given = FALSE,
              !.unread = IF h.unread < MaxUnread THEN h.unread + 1 ELSE h.unread]

\* k more ticks have been handled
Ticked(h, k) ==
    IF h.timing
    THEN [h EXCEPT !.ticks = IF h.ticks + k > fcprescalInit THEN fcprescalInit + 1
                                                            ELSE h.ticks + k]
    ELSE h

\* the gate has closed
Closed(h) ==
    IF h.timing
    THEN [h EXCEPT !.ticks = 0,
                   !.closes = IF h.closes < MaxCloses THEN h.closes + 1 ELSE h.closes]
    ELSE h

\* the counter has been reloaded, keeping or dropping the capture before
Reloaded(h, keep) ==
    IF h.timing THEN [h EXCEPT !.span = 0, !.stamp = IF keep THEN h.stamp ELSE -1] ELSE h

\* the input has been captured at the clock value t
Captured(h, t) ==
    IF h.timing
    THEN [h EXCEPT !.span = 0, !.ticks = 0, !.stamp = Sub32(t, ClockStart),
                   !.closes = IF h.closes < MaxCloses THEN h.closes + 1 ELSE h.closes]
    ELSE h

\* n more input pulses in a period mode, counted up to MaxSpan
Spanned(h, n) ==
    IF h.timing
    THEN [h EXCEPT !.span = IF h.span + n > MaxSpan THEN MaxSpan ELSE h.span + n]
    ELSE h

\* a read begins: it clears _FreqCtrReady or copies fcResult
Began(h) == [h EXCEPT !.batch = h.unread, !.unread = 0]

\* the program and the hardware after reset
Reset ==
    /\ fcGateTime = 0 /\ fcprescalInit = 0 /\ fcprescaler = 0
    /\ fcOVF = 0 /\ fcResult = 0 /\ FreqCtrReady = 0 /\ PrdCnt = 0
    /\ TCCR0B = 0 /\ TCNT0 = 0 /\ TOV0 = FALSE /\ TOIE0 = FALSE
    /\ PCMSK0 = {} /\ Changes = <<{}, {}>> /\ LastPINB = {} /\ PINB = {"gate"}
    /\ usec = ClockStart /\ window = "none"
    /\ pc = "idle" /\ call = NoCall /\ susp = NoCall /\ modes = 0
    /\ Val = 0 /\ St = <<>> /\ ret = NoRet

Init == Reset /\ hist = NoHist

(***************************************************************************)
(* Hardware and environment                                                *)
(***************************************************************************)
\* values of TCNT0 the model distinguishes: a few counts, and the reloads
CounterVals ==
    {(b + k) % CounterMod : b \in {0, CounterMod - 1, CounterMod - 10, CounterMod - 100},
                            k \in 0..MaxLow}

\* the overflow interrupt is pending: it is taken before the mainline's next
\* instruction, and only another handler can run before it
Pending == TOIE0 /\ TOV0

\* n input pulses clock Timer0 while it runs on the external clock
Pulse(n) ==
    /\ TCCR0B = ClockOn
    /\ ~Pending
    /\ (TCNT0 + n) % CounterMod \in CounterVals
    /\ TCNT0 + n >= CounterMod => (fcGateTime >= FCPRDNO \/ fcOVF < MaxWraps)
    /\ TCNT0' = (TCNT0 + n) % CounterMod
    /\ TOV0' = (TOV0 \/ TCNT0 + n >= CounterMod)
    /\ ret' = NoRet
    /\ hist' = Kept(IF fcGateTime >= FCPRDNO
                     THEN [Spanned(hist, n) EXCEPT
                              !.edges = IF hist.edges + n > PrdCnt + 1 + MaxBeyond
                                        THEN PrdCnt + 1 + MaxBeyond
                                        ELSE hist.edges + n]
                     ELSE [hist EXCEPT !.wraps = IF TCNT0 + n >= CounterMod
                                                 THEN hist.wraps + 1 ELSE hist.wraps])
    /\ UNCHANGED <<progVars, TCCR0B, TOIE0, pinVars, usec, window, mainVars>>

\* the microsecond clock moves on to a later sampled instant
Elapse ==
    /\ fcGateTime >= FCPRDNO
    /\ ~Pending
    /\ \E o \in ClockOffsets :
          /\ o > Sub32(usec, ClockStart)
          /\ usec' = Add32(ClockStart, o)
    /\ ret' = NoRet
    /\ UNCHANGED <<progVars, hwVars, pinVars, window, hist, mainVars>>

(***************************************************************************)
(* Interrupt handlers                                                      *)
(***************************************************************************)
\* TCNT0 = -PrdCnt
Reload(n) == (CounterMod - n) % CounterMod

\* (fcOVF << 8) + TCNT0 as an unsigned long
Combined(ovf, cnt) == Add32(Mul32(ovf, CounterMod), cnt)

\* FreqCtrGateISR at expiry in a period mode: the timeout.  window records
\* whether the prescaler that ran out was the 1 that mode() sets ("first"),
\* after which a full window is "open", or a full window without a capture
\* ("expired")
GateTimeout ==
    /\ window' = IF window = "first" THEN "open" ELSE "expired"
    /\ IF FreqCtrReady = 0
       THEN /\ TCNT0' = Reload(PrdCnt)
            /\ TOV0' = FALSE
            /\ fcOVF' = 0
            /\ fcResult' = NoSignal
            /\ FreqCtrReady' = 1
            /\ hist' = Kept(Published(Reloaded(Ticked(hist, 1), FALSE), NoSignal))
       ELSE /\ hist' = Kept(Ticked(hist, 1))
            /\ UNCHANGED <<TCNT0, TOV0, fcOVF, fcResult, FreqCtrReady>>
    /\ fcprescaler' = fcprescalInit
    /\ UNCHANGED TCCR0B

\* Where ISR(TIMER0_OVF_vect) comes in when the overflow is pending at
\* interrupts(): it is taken one instruction later, which is before
\* "fcResult = (fcOVF << 8) + ..." reads fcOVF or, if that instruction is the
\* first load of fcOVF, between that read and "fcOVF=0"
NestedAt == {"before", "between"}

\* FreqCtrGateISR at expiry in a counting mode: the gate closes.  The counter
\* is stopped, read, zeroed and restarted with interrupts off; the result is
\* put together after interrupts(), where a pending overflow is handled
GateClose ==
    /\ TCCR0B' = ClockOn
    /\ TCNT0' = 0
    /\ \E at \in (IF Pending THEN NestedAt ELSE {"none"}) :
          fcResult' = Combined(IF at = "before" THEN Add32(fcOVF, 1) ELSE fcOVF, TCNT0)
    /\ TOV0' = IF Pending THEN FALSE ELSE TOV0
    /\ fcOVF' = 0
    /\ FreqCtrReady' = IF TCCR0B # 0 THEN 1 ELSE FreqCtrReady
    /\ fcprescaler' = fcprescalInit
    /\ hist' = Kept(LET h == [Closed(hist) EXCEPT !.wraps = 0, !.latest = fcResult']
                   IN IF TCCR0B # 0 THEN Published(h, fcResult') ELSE h)
    /\ UNCHANGED window

\* variant: the prescaler is decremented whether or not it is 0
FreqCtrGateISRUnguarded ==
    IF (fcprescaler - 1) % 65536 = 0
    THEN IF fcGateTime >= FCPRDNO THEN GateTimeout ELSE GateClose
    ELSE /\ fcprescaler' = (fcprescaler - 1) % 65536
         /\ hist' = Kept(Ticked(hist, 1))
         /\ UNCHANGED <<fcOVF, fcResult, FreqCtrReady, TCCR0B, TCNT0, TOV0, window>>

\* FreqCtrGateISR, called every FCTIME ms by SysTimerIntFunc
FreqCtrGateISR ==
    IF fcprescaler # 0 /\ fcprescaler - 1 = 0
    THEN IF fcGateTime >= FCPRDNO THEN GateTimeout ELSE GateClose
    ELSE /\ fcprescaler' = IF fcprescaler # 0 THEN fcprescaler - 1 ELSE 0
         /\ hist' = Kept(Ticked(hist, 1))
         /\ UNCHANGED <<fcOVF, fcResult, FreqCtrReady, TCCR0B, TCNT0, TOV0, window>>

\* one tick
Tick ==
    /\ fcprescaler <= TickWindow
    /\ FreqCtrGateISR
    /\ ret' = NoRet
    /\ UNCHANGED <<fcGateTime, fcprescalInit, PrdCnt, TOIE0, pinVars, usec, mainVars>>

\* the ticks of a gate interval up to TickWindow before its expiry, between
\* which nothing else happens: each only decrements the prescaler
TickRun ==
    /\ fcprescaler > TickWindow
    /\ fcprescaler' = TickWindow
    /\ ret' = NoRet
    /\ hist' = Kept(Ticked(hist, fcprescaler - TickWindow))
    /\ UNCHANGED <<fcGateTime, fcprescalInit, fcOVF, fcResult, FreqCtrReady, PrdCnt,
                   hwVars, pinVars, usec, window, mainVars>>

\* variant: a capture that finds a result still unread keeps that result
PeriodCaptureKeepsUnread ==
    /\ TCNT0' = Reload(PrdCnt)
    /\ IF fcOVF # 0
       THEN /\ fcResult' = IF FreqCtrReady = 0 THEN Sub32(usec, fcOVF) ELSE fcResult
            /\ FreqCtrReady' = 1
            /\ hist' = Kept(Published(Captured(hist, usec), Sub32(usec, fcOVF)))
       ELSE /\ hist' = Kept(Captured(hist, usec))
            /\ UNCHANGED <<fcResult, FreqCtrReady>>
    /\ fcprescaler' = fcprescalInit
    /\ fcOVF' = usec
    /\ window' = "open"

\* variant: a capture publishes the clock less fcOVF whatever fcOVF is
PeriodCaptureFromZero ==
    /\ TCNT0' = Reload(PrdCnt)
    /\ fcResult' = Sub32(usec, fcOVF)
    /\ FreqCtrReady' = 1
    /\ hist' = Kept(Published(Captured(hist, usec), Sub32(usec, fcOVF)))
    /\ fcprescaler' = fcprescalInit
    /\ fcOVF' = usec
    /\ window' = "open"

\* ISR(TIMER0_OVF_vect), period mode: capture
PeriodCapture ==
    /\ TCNT0' = Reload(PrdCnt)
    /\ IF fcOVF # 0
       THEN /\ fcResult' = Sub32(usec, fcOVF)
            /\ FreqCtrReady' = 1
            /\ hist' = Kept(Published(Captured(hist, usec), Sub32(usec, fcOVF)))
       ELSE /\ hist' = Kept(Captured(hist, usec))
            /\ UNCHANGED <<fcResult, FreqCtrReady>>
    /\ fcprescaler' = fcprescalInit
    /\ fcOVF' = usec
    /\ window' = "open"

\* ISR(TIMER0_OVF_vect), counting mode: one more wrap
CountWrap ==
    /\ fcOVF' = Add32(fcOVF, 1)
    /\ UNCHANGED <<TCNT0, fcResult, FreqCtrReady, fcprescaler, window, hist>>

\* ISR(TIMER0_OVF_vect)
OvfISR ==
    /\ Pending
    /\ TOV0' = FALSE
    /\ IF fcGateTime >= FCPRDNO THEN PeriodCapture ELSE CountWrap
    /\ ret' = NoRet
    /\ UNCHANGED <<fcGateTime, fcprescalInit, PrdCnt, TCCR0B, TOIE0, pinVars, usec, mainVars>>

\* variant: the rising edge of the gate is handled whatever the mode
GateRisesAnyMode(ch1) == "gate" \in ch1

\* PCChangeIntFunc on the bits ISR(PCINT0_vect) has set: ch0 went low, ch1 went high
GateFalls(ch0) == fcGateTime = FCEXTNO /\ "gate" \in ch0
GateRises(ch1) == fcGateTime = FCEXTNO /\ "gate" \in ch1

PCChangeIntFunc(ch0, ch1) ==
    LET f == GateFalls(ch0)
        r == GateRises(ch1)
        \* after the falling edge part
        cnt1 == IF f THEN 0 ELSE TCNT0
        ccr1 == IF f THEN ClockOn ELSE TCCR0B
        ovf1 == IF f THEN 0 ELSE fcOVF
    IN /\ TCNT0' = cnt1
       /\ TCCR0B' = IF r THEN 0 ELSE ccr1
       /\ fcResult' = IF r THEN Combined(ovf1, cnt1) ELSE fcResult
       /\ fcOVF' = IF r THEN 0 ELSE ovf1
       /\ FreqCtrReady' = IF r /\ ccr1 # 0 THEN 1 ELSE FreqCtrReady
       /\ hist' = Kept(LET h0 == IF hist.timing /\ fcGateTime = FCEXTNO /\ "gate" \notin PINB'
                                THEN [hist EXCEPT !.fell = TRUE] ELSE hist
                       h1 == IF f THEN [h0 EXCEPT !.wraps = 0] ELSE h0
                       h2 == IF r THEN [h1 EXCEPT !.latest = Combined(ovf1, cnt1)] ELSE h1
                   IN IF r /\ ccr1 # 0 THEN Published(h2, Combined(ovf1, cnt1)) ELSE h2)
       /\ Changes' = <<IF f THEN ch0 \ {"gate"} ELSE ch0,
                       IF r THEN Pins \ {"gate"} ELSE ch1>>

\* the gate input changes level while its change interrupts: ISR(PCINT0_vect)
GateEdge ==
    LET new == IF "gate" \in PINB THEN PINB \ {"gate"} ELSE PINB \cup {"gate"}
        i == ((LastPINB \ new) \cup (new \ LastPINB)) \cap PCMSK0
    IN /\ "gate" \in PCMSK0
       /\ PINB' = new
       /\ PCChangeIntFunc(Changes[1] \cup (i \ new), Changes[2] \cup (i \cap new))
       /\ LastPINB' = new
       /\ ret' = NoRet
       /\ UNCHANGED <<fcGateTime, fcprescalInit, fcprescaler, PrdCnt, TOV0, TOIE0,
                      PCMSK0, usec, window, mainVars>>

(***************************************************************************)
(* mode(sbyte GateTime)                                                    *)
(***************************************************************************)
ModeCallOf(g) == [fn |-> "mode", arg |-> g, wait |-> FALSE]

\* InitPCInterrupt(mask); the level of the pins is followed only while their
\* change interrupts, so it is any level when that is switched on
InitPCInterrupt(on) ==
    IF on
    THEN /\ IF PCMSK0 = {}
            THEN \E lvl \in SUBSET {"gate"} : PINB' = lvl /\ LastPINB' = lvl
            ELSE UNCHANGED <<PINB, LastPINB>>
         /\ PCMSK0' = PCMSK0 \cup {"gate"}
    ELSE /\ PCMSK0' = {}
         /\ UNCHANGED <<PINB, LastPINB>>

\* variant: every refused call answers -1
ModeRefusedMinusOne(g) == -1

\* what mode returns without committing: the current mode for a negative
\* argument (GetGate), -1 for one above FCMODEMAX
ModeRefused(g) == IF g < 0 THEN fcGateTime ELSE -1

\* variant: a refused call that falls through to the reset at the end of mode
ModeRefuseReset(g) ==
    /\ g < 0 \/ g > FCMODEMAX
    /\ ret' = Returned(ModeCallOf(g), ModeRefused(g), <<>>, FALSE)
    /\ FreqCtrReady' = 0 /\ fcResult' = 0
    /\ UNCHANGED <<fcGateTime, fcprescalInit, fcprescaler, fcOVF, PrdCnt,
                   hwVars, pinVars, usec, window, hist, pc, call, susp, modes, Val, St>>

\* mode(g), g < 0 or g > FCMODEMAX: returns at once
ModeRefuse(g) ==
    /\ g < 0 \/ g > FCMODEMAX
    /\ ret' = Returned(ModeCallOf(g), ModeRefused(g), <<>>, FALSE)
    /\ UNCHANGED <<progVars, hwVars, pinVars, usec, window, hist, pc, call, susp, modes, Val, St>>

\* variant: the prescaler of a mode that has just been armed is left at the
\* divisor
ArmedPrescaleDivisor(g) == IF g = FCEXTNO THEN 0 ELSE Divisor(g)

\* variant: mode leaves the prescaler of every mode at 0
ArmedPrescaleOff(g) == 0

\* variant: the prescaler of a mode that has just been armed is 1 in the
\* external gate as well
ArmedPrescaleOne(g) == 1

\* the prescaler of an active mode that has just been armed: "fcprescaler=1",
\* and for the external gate "fcprescaler=0" after it
ArmedPrescale(g) == IF g = FCEXTNO THEN 0 ELSE 1

\* mode(g), 0 <= g <= FCMODEMAX, from its entry to interrupts(): the mode,
\* the prescale and the averaging are resolved and the hardware is armed
ModeArm(g) ==
    /\ fcGateTime' = g
    /\ PrdCnt' = IF g >= FCPRDNO THEN Averages(g) ELSE PrdCnt
    /\ fcprescalInit' = Divisor(g)
    /\ IF Divisor(g) # 0
       THEN IF g >= FCPRDNO
            THEN /\ fcprescaler' = ArmedPrescale(g)
                 /\ TCNT0' = Reload(Averages(g))
                 /\ fcOVF' = 0
                 /\ TCCR0B' = ClockOn
                 /\ TOV0' = FALSE
                 /\ TOIE0' = TRUE
                 /\ UNCHANGED <<PCMSK0, LastPINB, PINB>>
            ELSE /\ TCCR0B' = 0
                 /\ TCNT0' = 0
                 /\ TOIE0' = TRUE
                 /\ fcprescaler' = ArmedPrescale(g)
                 /\ IF g = FCEXTNO
                    THEN InitPCInterrupt(TRUE)
                    ELSE UNCHANGED <<PCMSK0, LastPINB, PINB>>
                 /\ UNCHANGED <<fcOVF, TOV0>>
       ELSE /\ fcprescaler' = 0
            /\ TCCR0B' = 0
            /\ TOIE0' = FALSE
            /\ IF fcGateTime = FCEXTNO
               THEN InitPCInterrupt(FALSE)
               ELSE UNCHANGED <<PCMSK0, LastPINB, PINB>>
            /\ UNCHANGED <<TCNT0, fcOVF, TOV0>>
    /\ window' = IF g >= FCPRDNO THEN "first" ELSE "none"
    /\ hist' = Kept([hist EXCEPT !.wraps = 0, !.edges = 0,
                                 !.ticks = 0, !.closes = 0, !.stamp = -1, !.span = 0,
                                 !.fell = FALSE])
    /\ UNCHANGED <<fcResult, FreqCtrReady, Changes, usec>>

\* a mode call starts, from the mainline or from yield() inside a blocked read
ModeCall(g) ==
    /\ pc \in {"idle", "wait"}
    /\ ~Pending
    /\ IF g < 0 \/ g > FCMODEMAX
       THEN pc = "idle" /\ ModeRefuse(g)
       ELSE /\ modes < MaxModes
            /\ ModeArm(g)
            /\ pc' = "mClr"
            /\ call' = ModeCallOf(g)
            /\ susp' = IF pc = "wait" THEN call ELSE NoCall
            /\ modes' = modes + 1
            /\ ret' = NoRet
            /\ UNCHANGED <<Val, St>>

\* variant: mode leaves _FreqCtrReady as it is
ModeClrKeeps ==
    /\ pc = "mClr"
    /\ ~Pending
    /\ pc' = "mRes"
    /\ ret' = NoRet
    /\ UNCHANGED <<progVars, hwVars, pinVars, usec, window, hist, call, susp, modes, Val, St>>

\* _FreqCtrReady=0
ModeClr ==
    /\ pc = "mClr"
    /\ ~Pending
    /\ FreqCtrReady' = 0
    /\ pc' = "mRes"
    /\ ret' = NoRet
    /\ UNCHANGED <<fcGateTime, fcprescalInit, fcprescaler, fcOVF, fcResult, PrdCnt,
                   hwVars, pinVars, usec, window, hist, call, susp, modes, Val, St>>

\* variant: mode returns the gate sequence number it has converted the code to
ModeReturnConverted == SeqGate(fcGateTime)

\* the value of "return fcGateTime"
ModeReturn == fcGateTime

\* the low k bytes of a word
LowBytes(v, k) ==
    IF k = 1 THEN Lo(v) % 256 ELSE IF k = 2 THEN Lo(v) ELSE Word(Hi(v) % 256, Lo(v))

\* "fcResult=0" is four byte stores with interrupts on: the bytes that a
\* handler coming between them finds already stored are the low 1, 2 or 3,
\* and what the handler puts in them stays
StoredAfter == {1, 2, 3}

\* fcResult=0, up to where a handler may come in
ModeZero ==
    /\ pc = "mRes"
    /\ ~Pending
    /\ fcResult' = 0
    /\ pc' = "mRet"
    /\ ret' = NoRet
    /\ UNCHANGED hist
    /\ UNCHANGED <<fcGateTime, fcprescalInit, fcprescaler, fcOVF, FreqCtrReady, PrdCnt,
                   hwVars, pinVars, usec, window, call, susp, modes, Val, St>>

\* fcResult=0, the rest of its bytes; return fcGateTime
ModeRes ==
    /\ pc = "mRet"
    /\ ~Pending
    /\ \E k \in StoredAfter : fcResult' = LowBytes(fcResult, k)
    /\ ret' = Returned(call, ModeReturn, <<>>, FALSE)
    /\ pc' = IF susp = NoCall THEN "idle" ELSE "wait"
    /\ call' = susp
    /\ susp' = NoCall
    /\ hist' = Kept([hist EXCEPT !.unread = 0, !.given = FALSE])
    /\ UNCHANGED <<fcGateTime, fcprescalInit, fcprescaler, fcOVF, FreqCtrReady, PrdCnt,
                   hwVars, pinVars, usec, window, modes, Val, St>>

\* mode(void)
getMode == fcGateTime

\* available()
available == FreqCtrReady

Available ==
    /\ pc = "idle"
    /\ ~Pending
    /\ ret' = Returned([fn |-> "available", arg |-> 0, wait |-> FALSE], available, <<>>, FALSE)
    /\ UNCHANGED <<progVars, hwVars, pinVars, usec, window, hist, pc, call, susp, modes, Val, St>>

(***************************************************************************)
(* read(char *St, bool Wait) and read(bool Wait)                           *)
(***************************************************************************)
\* variant: a wait loop that does not look at the mode
WaitCondAnyMode(w) == w /\ FreqCtrReady = 0

\* the condition of the wait loop
WaitCond(w) == fcGateTime # 0 /\ w /\ FreqCtrReady = 0

\* noInterrupts(); Val = fcResult; interrupts();
StrCopy ==
    /\ Val' = fcResult
    /\ pc' = "sFmt"
    /\ hist' = Kept(Began(hist))
    /\ UNCHANGED <<progVars, St>>

\* _FreqCtrReady=0, of read(bool), before the copy
RawClr ==
    /\ FreqCtrReady' = 0
    /\ pc' = "rCopy"
    /\ hist' = Kept(Began(hist))
    /\ UNCHANGED <<fcGateTime, fcprescalInit, fcprescaler, fcOVF, fcResult, PrdCnt, Val, St>>

\* variant: read goes on without a place for its result
ReturnsNullNever(buf) == FALSE

\* if (!St) return St
ReturnsNull(buf) == ~buf

\* read(St, Wait) is called
ReadCall(buf, w) ==
    /\ pc = "idle"
    /\ ~Pending
    /\ LET c == [fn |-> "read", arg |-> IF buf THEN 1 ELSE 0, wait |-> w]
       IN IF ReturnsNull(buf)
          THEN /\ ret' = Returned(c, 0, <<>>, TRUE)
               /\ UNCHANGED <<progVars, pc, call, Val, St, hist>>
          ELSE /\ ret' = NoRet
               /\ call' = c
               /\ IF WaitCond(w)
                  THEN pc' = "wait" /\ UNCHANGED <<progVars, Val, St, hist>>
                  ELSE StrCopy
    /\ UNCHANGED <<hwVars, pinVars, usec, window, susp, modes>>

\* read(Wait) is called
RawCall(w) ==
    /\ pc = "idle"
    /\ ~Pending
    /\ ret' = NoRet
    /\ call' = [fn |-> "readRaw", arg |-> 0, wait |-> w]
    /\ IF WaitCond(w)
       THEN pc' = "wait" /\ UNCHANGED <<progVars, Val, St, hist>>
       ELSE RawClr
    /\ UNCHANGED <<hwVars, pinVars, usec, window, susp, modes>>

\* yield() returns to the wait loop, and the loop ends
Resume ==
    /\ pc = "wait"
    /\ ~Pending
    /\ ~WaitCond(call.wait)
    /\ IF call.fn = "read" THEN StrCopy ELSE RawClr
    /\ ret' = NoRet
    /\ UNCHANGED <<hwVars, pinVars, usec, window, call, susp, modes>>

\* the scaling and the two sprintf of read(St, Wait)
StrFmt ==
    /\ pc = "sFmt"
    /\ ~Pending
    /\ St' = Format(fcGateTime, fcprescalInit, PrdCnt, Val, FreqCtrReady)
    /\ pc' = "sClr"
    /\ ret' = NoRet
    /\ UNCHANGED <<progVars, hwVars, pinVars, usec, window, hist, call, susp, modes, Val>>

\* _FreqCtrReady=0; return St
StrClr ==
    /\ pc = "sClr"
    /\ ~Pending
    /\ FreqCtrReady' = 0
    /\ ret' = Returned(call, Val, St, FALSE)
    /\ pc' = "idle" /\ call' = NoCall /\ Val' = 0 /\ St' = <<>>
    /\ UNCHANGED <<fcGateTime, fcprescalInit, fcprescaler, fcOVF, fcResult, PrdCnt,
                   hwVars, pinVars, usec, window, hist, susp, modes>>

\* noInterrupts(); Val=fcResult; interrupts(); return Val
RawCopy ==
    /\ pc = "rCopy"
    /\ ~Pending
    /\ ret' = Returned(call, fcResult, <<>>, FALSE)
    /\ pc' = "idle" /\ call' = NoCall
    /\ hist' = Kept(IF call.wait /\ fcGateTime # 0 THEN [hist EXCEPT !.given = TRUE] ELSE hist)
    /\ UNCHANGED <<progVars, hwVars, pinVars, usec, window, susp, modes, Val, St>>

(***************************************************************************)
(* The system                                                              *)
(***************************************************************************)
Next ==
    \/ \E g \in ModeArgs : ModeCall(g)
    \/ ModeClr
    \/ ModeZero
    \/ ModeRes
    \/ Available
    \/ \E buf \in BOOLEAN, w \in BOOLEAN : ReadCall(buf, w)
    \/ \E w \in BOOLEAN : RawCall(w)
    \/ Resume
    \/ StrFmt
    \/ StrClr
    \/ RawCopy
    \/ Tick
    \/ TickRun
    \/ OvfISR
    \/ GateEdge
    \/ \E n \in PulseBursts : Pulse(n)
    \/ Elapse

Spec == Init /\ [][Next]_vars

(***************************************************************************)
(* The system with the history of its run recorded, read with read(bool)   *)
(***************************************************************************)
InitHist == Reset /\ hist = [NoHist EXCEPT !.on = TRUE]

\* the modes the history is followed in: the 1 s gate, the external gate, and
\* the period of one wave and of ten
HistModes == {1, FCEXTNO, FCPRDNO, FCPRDNO + 1}

NextHist ==
    \/ \E g \in HistModes : ModeCall(g)
    \/ ModeClr
    \/ ModeZero
    \/ ModeRes
    \/ \E w \in BOOLEAN : RawCall(w)
    \/ Resume
    \/ RawCopy
    \/ Tick
    \/ TickRun
    \/ OvfISR
    \/ GateEdge
    \/ \E n \in PulseBursts : Pulse(n)
    \/ Elapse

SpecHist == InitHist /\ [][NextHist]_vars

(***************************************************************************)
(* The system with the history of its run recorded, read with both reads,  *)
(* in the 1 s gate and the period of one wave                              *)
(***************************************************************************)
ReadModes == {1, FCPRDNO}

NextReads ==
    \/ \E g \in ReadModes : ModeCall(g)
    \/ ModeClr
    \/ ModeZero
    \/ ModeRes
    \/ \E w \in BOOLEAN : ReadCall(TRUE, w)
    \/ \E w \in BOOLEAN : RawCall(w)
    \/ Resume
    \/ StrFmt
    \/ StrClr
    \/ RawCopy
    \/ Tick
    \/ TickRun
    \/ OvfISR
    \/ \E n \in PulseBursts : Pulse(n)
    \/ Elapse

SpecReads == InitHist /\ [][NextReads]_vars

(***************************************************************************)
(* The capture of a period on its own: a period mode that holds a time     *)
(* stamp when the next overflow interrupt comes, for the values that       *)
(* micros() returns around the start and the wrap of its clock, and the    *)
(* formatted read of what is published                                     *)
(***************************************************************************)
\* variant: a clock that resolves single microseconds
microsExact(m, ctr, ocf) ==
    Add32(Mul32(IF ctr < 8 /\ ocf THEN m + 1 ELSE m, 1000), ctr)

\* micros(), from the milliseconds m, the timer count ctr and the compare
\* flag ocf it reads: m*1000 + ctr*4 modulo 2^32, m one more when the timer
\* has just started over
micros(m, ctr, ocf) ==
    Add32(Mul32(IF ctr < 8 /\ ocf THEN m + 1 ELSE m, 1000), ctr * MicrosRes)

\* milliseconds and timer counts sampled: the start, and the wrap of m*1000
Millis == {0, 1, 4294967, 4294968}
TimerCounts == {0, 1, 74, 249}

\* the values of micros() sampled
Stamps == {micros(m, c, o) : m \in Millis, c \in TimerCounts, o \in BOOLEAN}

InitStamps ==
    /\ fcGateTime \in FCPRDNO..FCMODEMAX
    /\ fcprescalInit = Divisor(fcGateTime)
    /\ fcprescaler \in {1, fcprescalInit}
    /\ PrdCnt = Averages(fcGateTime)
    /\ fcOVF \in Stamps /\ usec \in Stamps
    /\ fcResult = 0 /\ FreqCtrReady = 0
    /\ TCCR0B = ClockOn /\ TCNT0 = 0 /\ TOV0 = TRUE /\ TOIE0 = TRUE
    /\ PCMSK0 = {} /\ Changes = <<{}, {}>> /\ LastPINB = {} /\ PINB = {"gate"}
    /\ window = "open"
    /\ hist = NoHist
    /\ pc = "idle" /\ call = NoCall /\ susp = NoCall /\ modes = 1
    /\ Val = 0 /\ St = <<>> /\ ret = NoRet

NextStamps ==
    \/ OvfISR
    \/ Tick
    \/ TickRun
    \/ ReadCall(TRUE, FALSE)
    \/ StrFmt
    \/ StrClr

SpecStamps == InitStamps /\ [][NextStamps]_vars

(***************************************************************************)
(* The external gate left and entered again: from the state that mode(6)   *)
(* leaves after reset, with the gate line at either level, the sketch      *)
(* calls mode with 0, 1, 2 and 6                                           *)
(***************************************************************************)
InitGate ==
    /\ fcGateTime = FCEXTNO /\ fcprescalInit = Divisor(FCEXTNO)
    /\ fcprescaler = ArmedPrescale(FCEXTNO)
    /\ fcOVF = 0 /\ fcResult = 0 /\ FreqCtrReady = 0 /\ PrdCnt = 0
    /\ TCCR0B = 0 /\ TCNT0 = 0 /\ TOV0 = FALSE /\ TOIE0 = TRUE
    /\ PCMSK0 = {"gate"} /\ Changes = <<{}, {}>>
    /\ PINB \in SUBSET {"gate"} /\ LastPINB = PINB
    /\ usec = ClockStart /\ window = "none"
    /\ hist = [NoHist EXCEPT !.on = TRUE, !.timing = TRUE]
    /\ pc = "idle" /\ call = NoCall /\ susp = NoCall /\ modes = 0
    /\ Val = 0 /\ St = <<>> /\ ret = NoRet

GateModes == {0, 1, 2, FCEXTNO}

NextGate ==
    \/ \E g \in GateModes : ModeCall(g)
    \/ ModeClr
    \/ ModeZero
    \/ ModeRes
    \/ Tick
    \/ OvfISR
    \/ GateEdge
    \/ \E n \in PulseBursts : Pulse(n)

SpecGate == InitGate /\ [][NextGate]_vars

(***************************************************************************)
(* The system with the timing of its handlers recorded, in the modes that  *)
(* the 10 ms tick gates or times out, read with read(bool)                 *)
(***************************************************************************)
InitTimes == Reset /\ hist = [NoHist EXCEPT !.on = TRUE, !.timing = TRUE]

\* the timed gates and the period modes
TickModes == (1..FCEXTNO - 1) \cup (FCPRDNO..FCMODEMAX)

NextTimes ==
    \/ \E g \in TickModes : ModeCall(g)
    \/ ModeClr
    \/ ModeZero
    \/ ModeRes
    \/ \E w \in BOOLEAN : RawCall(w)
    \/ Resume
    \/ RawCopy
    \/ Tick
    \/ TickRun
    \/ OvfISR
    \/ \E n \in PulseBursts : Pulse(n)
    \/ Elapse

SpecTimes == InitTimes /\ [][NextTimes]_vars

(***************************************************************************)
(* The formatted read on its own: any mode, any raw result, fresh or not,  *)
(* and no interrupt while it runs                                          *)
(***************************************************************************)
InitFmt ==
    /\ fcGateTime \in 0..FCMODEMAX
    /\ fcprescalInit = Divisor(fcGateTime)
    /\ fcprescaler = (IF fcGateTime = FCEXTNO THEN 0 ELSE fcprescalInit)
    /\ PrdCnt = (IF fcGateTime >= FCPRDNO THEN Averages(fcGateTime) ELSE 0)
    /\ fcResult \in RawValues /\ FreqCtrReady \in {0, 1} /\ fcOVF = 0
    /\ TCCR0B = (IF fcGateTime = 0 THEN 0 ELSE ClockOn) /\ TCNT0 = 0
    /\ TOV0 = FALSE /\ TOIE0 = (fcGateTime # 0)
    /\ PCMSK0 = (IF fcGateTime = FCEXTNO THEN {"gate"} ELSE {})
    /\ Changes = <<{}, {}>> /\ LastPINB = {"gate"} /\ PINB = {"gate"}
    /\ usec = ClockStart
    /\ window = (IF fcGateTime >= FCPRDNO THEN "open" ELSE "none")
    /\ hist = NoHist
    /\ pc = "idle" /\ call = NoCall /\ susp = NoCall /\ modes = 1
    /\ Val = 0 /\ St = <<>> /\ ret = NoRet

NextFmt ==
    \/ ReadCall(TRUE, FALSE)
    \/ StrFmt
    \/ StrClr

SpecFmt == InitFmt /\ [][NextFmt]_vars

(***************************************************************************)
(* The system with its scheduling.  The sketch sets a mode, reads with     *)
(* Wait set, and may call mode from yield() while a read waits.  The       *)
(* input counts in bursts short of a wrap of a counting gate, and the      *)
(* microsecond clock, whose value decides no branch that ends a wait,      *)
(* stays where it is.  The 10 ms tick keeps firing, a pending overflow     *)
(* interrupt is taken, and the mainline runs again and again while it has  *)
(* a step to take and no interrupt is pending.  Nothing is assumed of the  *)
(* input, of the gate line or of the calls the sketch makes.               *)
(***************************************************************************)
MainStep == ModeClr \/ ModeZero \/ ModeRes \/ Resume \/ StrFmt \/ StrClr \/ RawCopy

\* MainStep is enabled
MainReady ==
    /\ ~Pending
    /\ \/ pc \in {"mClr", "mRes", "mRet", "sFmt", "sClr", "rCopy"}
       \/ pc = "wait" /\ ~WaitCond(call.wait)

NextLive ==
    \/ \E g \in 0..FCMODEMAX : (pc = "wait" \/ modes = 0) /\ ModeCall(g)
    \/ ReadCall(TRUE, TRUE)
    \/ RawCall(TRUE)
    \/ MainStep
    \/ Tick
    \/ TickRun
    \/ OvfISR
    \/ GateEdge
    \/ \E n \in PulseBursts \ {CounterMod} : Pulse(n)

\* the last conjunct is SF_vars(MainStep) with ENABLED written out
Scheduling ==
    /\ WF_vars(Tick \/ TickRun)
    /\ WF_vars(OvfISR)
    /\ (<>[]~MainReady \/ []<><<MainStep>>_vars)

SpecLive == Init /\ [][NextLive]_vars /\ Scheduling

(***************************************************************************)
(* Properties of mode                                                      *)
(***************************************************************************)
Reads == {"read", "readRaw"}
ValidModes == 0..FCMODEMAX
\* the step just taken was mode(g) returning without committing
Refusing == ret'.fn = "mode" /\ ret'.arg \notin ValidModes

\* C1: for every mode code m in 0..9, mode(m) returns m, and mode() asked
\* when it has returned answers m
C1_SetModeReturnsMode ==
    (ret.fn = "mode" /\ ret.arg \in ValidModes) => (ret.val = ret.arg /\ getMode = ret.arg)

C1_Witness ==
    /\ ret.fn = "mode" /\ ret.arg = FCMODEMAX /\ ret.val = FCMODEMAX
    /\ modes = MaxModes

\* C2 as stated: mode(g) with g above 9 or below 0 returns -1 and leaves the
\* mode, the divisor, the prescale counter, the accumulator, the result and
\* the ready flag as they were
C2_Original ==
    [][Refusing => (ret'.val = -1 /\ UNCHANGED progVars)]_vars

\* C2: mode(g) with g above 9 returns -1, with g below 0 it returns the
\* current mode; in both cases the mode, the divisor, the prescale counter,
\* the accumulator, the result and the ready flag stay as they were
C2_RefusedLeavesState ==
    [][Refusing => /\ ret'.val = IF ret'.arg > FCMODEMAX THEN -1 ELSE fcGateTime
                   /\ UNCHANGED progVars]_vars

C2_Witness ==
    /\ ret.fn = "mode" /\ ret.arg < -1 /\ ret.val = FCPRDNO
    /\ FreqCtrReady = 1 /\ fcResult # 0

\* C3: mode(-1) is a query: it returns the current mode and changes nothing
\* of the program, the timer or the pin change unit
C3_QueryChangesNothing ==
    [][(ret'.fn = "mode" /\ ret'.arg = -1)
          => (ret'.val = fcGateTime /\ UNCHANGED <<progVars, hwVars, pinVars>>)]_vars

C3_Witness ==
    /\ ret.fn = "mode" /\ ret.arg = -1 /\ ret.val = FCEXTNO
    /\ TCCR0B = ClockOn

(***************************************************************************)
(* Properties of the reads                                                 *)
(***************************************************************************)
\* C5: a read enters its wait loop only when Wait is set and the mode is
\* not Off: with the mode Off, or with Wait clear, it goes on to the copy
\* without one pass of the loop
C5_WaitsOnlyWhenOnAndAsked ==
    [][(pc = "idle" /\ pc' = "wait") => (call'.wait /\ fcGateTime # 0)]_vars

\* a waiting raw read has returned in mode Off, which no mode call inside a
\* wait loop has set
C5_Witness ==
    /\ ret.fn = "readRaw" /\ ret.wait
    /\ fcGateTime = 0 /\ modes <= 1

\* C6 as stated: when a read that was given a place for its result has just
\* returned, available() is false
C6_Original ==
    (ret.fn \in Reads /\ ~ret.null) => available = 0

\* a read is blocked: in its wait loop, or in yield() while mode runs
Switching == susp # NoCall

ZeroHz == <<"0", ".", "0", "0", "0", "0", "0">>

\* C7 as stated: in a period mode, a formatted read that starts when a full
\* timeout window has run out with no capture since copies a value that it
\* prints as "0.00000"
C7_Original ==
    [][(pc = "idle" /\ pc' = "sFmt" /\ fcGateTime >= FCPRDNO /\ window = "expired")
          => Format(fcGateTime, fcprescalInit, PrdCnt, Val', FreqCtrReady) = ZeroHz]_vars

(***************************************************************************)
(* Properties of the formatted read                                        *)
(***************************************************************************)
RECURSIVE Decimal(_)
\* n in decimal
Decimal(n) == IF n < 10 THEN <<Digit(n)>> ELSE Append(Decimal(n \div 10), Digit(n % 10))

RECURSIVE Fraction(_, _, _)
\* the first k decimals of r / p, for r < p
Fraction(r, p, k) ==
    IF k = 0 THEN <<>>
    ELSE <<Digit((r * 10) \div p)>> \o Fraction((r * 10) % p, p, k - 1)

\* floor(10^11 * n / p) with the decimal point 5 digits from the right
HzString(n, p) ==
    Decimal((Pow10(6) * n) \div p) \o <<".">> \o Fraction((Pow10(6) * n) % p, p, PeriodDP)

\* the count c of a gate of d ticks in Hz
CountString(d, c) ==
    IF d <= 100 THEN Decimal(c * (100 \div d))
    ELSE Decimal(c \div (d \div 100)) \o <<".">>
            \o Fraction(c % (d \div 100), d \div 100, Log10I(d \div 100))

\* the formatted read has printed a fresh result of a period mode
FreshPeriod == pc = "sClr" /\ fcGateTime >= FCPRDNO /\ FreqCtrReady = 1
\* a period the clock can measure
Measured(v) == v % MicrosRes = 0

TooFastString == <<"9", "9", "9", "9", "9", "9">>

\* C8: in a period mode with N periods averaged, a fresh measured period
\* of at most 24*N microseconds is printed as "999999"
C8_ShortPeriodTooFast ==
    (FreshPeriod /\ Measured(Val) /\ Val <= PeriodGuard * PrdCnt) => St = TooFastString

C8_Witness ==
    /\ FreshPeriod /\ PrdCnt = 10 /\ Val = PeriodGuard * PrdCnt
    /\ St = TooFastString

\* C9: in a period mode with N periods averaged, a fresh period P above
\* 24*N microseconds is printed as floor(10^11 * N / P) with the decimal
\* point 5 digits from the right
C9_PeriodAsHz ==
    (FreshPeriod /\ Val > PeriodGuard * PrdCnt) => St = HzString(PrdCnt, Val)

C9_Witness ==
    /\ FreshPeriod /\ PrdCnt = 1 /\ Val = 1000
    /\ St = <<"1", "0", "0", "0", ".", "0", "0", "0", "0", "0">>

\* C10: in a counting mode with a gate of D ticks, the count C is printed
\* as C*100 for D = 1, C*10 for D = 10, C for D = 100 (1 s and
\* ExternalGate), C/10 with one decimal for D = 1000 and C/100 with two
\* decimals for D = 10000
C10_CountAsHz ==
    (pc = "sClr" /\ fcGateTime \in 1..FCEXTNO /\ Val <= MaxCount)
        => St = CountString(fcprescalInit, Val)

C10_Witness ==
    /\ pc = "sClr" /\ fcprescalInit = 1000 /\ Val = 500
    /\ St = <<"5", "0", ".", "0">>

(***************************************************************************)
(* Properties of the reads, continued                                      *)
(***************************************************************************)
\* C11: read called with no buffer returns null in the step that calls it,
\* without a pass of the wait loop whatever Wait and the mode are, and
\* leaves the program's variables as they were; read called with a buffer
\* never returns null
C11_NullOnlyWithoutBuffer ==
    [][(ret'.fn = "read")
          => IF ret'.arg = 0
             THEN ret'.null /\ pc = "idle" /\ pc' = "idle" /\ UNCHANGED progVars
             ELSE ~ret'.null]_vars

\* read(NULL, 1) has returned null in a counting mode with no result ready
C11_Witness ==
    /\ ret.fn = "read" /\ ret.arg = 0 /\ ret.wait /\ ret.null
    /\ fcGateTime \in 1..5 /\ FreqCtrReady = 0 /\ pc = "idle"

\* C12 as stated: a formatted read with Wait=0 that follows another one,
\* with no completion in between, returns the string the first returned
C12_Original ==
    [][(ret.fn = "read" /\ ~ret.null /\ ~ret.wait /\ pc = "idle" /\ pc' = "sFmt")
          => Format(fcGateTime, fcprescalInit, PrdCnt, Val', FreqCtrReady) = ret.str]_vars


(***************************************************************************)
(* Properties of the results the handlers publish                          *)
(***************************************************************************)
\* a timed gate closes and marks its result ready
GateCloses ==
    /\ fcGateTime \in 1..5 /\ fcprescaler = 1 /\ TCCR0B # 0
    /\ fcprescaler' = fcprescalInit /\ FreqCtrReady' = 1

\* C13 as stated: in the timed frequency modes every result marked ready is
\* the number of pulses the counter counted in that gate interval, 256 times
\* its wraps plus what it held when the gate closed, however the overflow
\* interrupt falls on the gate close
C13_Original ==
    [][GateCloses => fcResult' = Combined(hist.wraps, TCNT0)]_vars


C15_Original ==
    [][(pc = "rCopy" /\ pc' = "idle" /\ call.wait /\ fcGateTime # 0) => ~hist.given]_vars


\* C16 as stated, its first part: when mode(g), 0 <= g <= 9, has returned,
\* available() answers 0
C16_Original ==
    (ret.fn = "mode" /\ ret.arg \in ValidModes) => available = 0


(***************************************************************************)
(* A first period measurement: a period mode is set from reset, and when   *)
(* mode has returned the input starts, all of it before the first tick     *)
(***************************************************************************)
NextFirst ==
    \/ \E g \in FCPRDNO..FCMODEMAX : modes = 0 /\ ModeCall(g)
    \/ ModeClr
    \/ ModeZero
    \/ ModeRes
    \/ OvfISR
    \/ \E n \in PulseBursts \ {CounterMod} : pc = "idle" /\ fcGateTime >= FCPRDNO /\ Pulse(n)
    \/ pc = "idle" /\ Elapse

SpecFirst == InitHist /\ [][NextFirst]_vars

\* C17 as stated: in a period mode that averages N periods, when the input has
\* made N+1 transitions since the mode was set, all within the timeout, a
\* measured result (not the no-signal value) is marked ready
C17_Original ==
    (fcGateTime >= FCPRDNO /\ pc = "idle" /\ ~Pending /\ hist.edges >= PrdCnt + 1)
        => (FreqCtrReady = 1 /\ fcResult # NoSignal)


(***************************************************************************)
(* Properties of the size of the string                                    *)
(***************************************************************************)
Points(s) == Cardinality({i \in 1..Len(s) : s[i] = "."})
\* the characters before the first point, and those after it
IntDigits(s) == Cardinality({i \in 1..Len(s) : \A j \in 1..i : s[j] # "."})
FracDigits(s) == Cardinality({i \in 1..Len(s) : \E j \in 1..(i - 1) : s[j] = "."})
\* an unsigned long has at most this many decimal digits
WordDigits == 10

\* C18 as stated: in every mode and for every raw result the string of
\* read(St, Wait) has at most 6 digits before the point, at most one point
\* and at most 5 digits after it
C18_Original ==
    pc = "sClr" => (IntDigits(St) <= 6 /\ Points(St) <= 1 /\ FracDigits(St) <= 5)

\* C18: in every mode and for every raw result the string of read(St, Wait)
\* has at most 10 digits before the point, at most one point, at most 5
\* digits after it, and at most 12 characters in all
C18_StringFits ==
    pc = "sClr" => /\ IntDigits(St) <= WordDigits
                   /\ Points(St) <= 1
                   /\ FracDigits(St) <= PeriodDP
                   /\ Len(St) <= 12

C18_Witness ==
    /\ pc = "sClr" /\ fcGateTime = 5 /\ Val = 100000000
    /\ IntDigits(St) = 7 /\ Points(St) = 1 /\ FracDigits(St) = 2


\* C19 as stated: the result is never torn.  Every value that a read copies
\* out of fcResult is one that a single writer stored whole: the value a
\* handler stored last, or the 0 of mode
C19_Original ==
    [][(pc = "rCopy" /\ pc' = "idle") => ret'.val \in {0, hist.latest}]_vars


(***************************************************************************)
(* Properties of the mode table                                            *)
(***************************************************************************)
\* the ticks per gate of the modes 0..9, and the periods averaged in 7..9
TicksOfMode == <<0, 100, 1, 10, 1000, 10000, 100, 500, 500, 500>>
PeriodsOfMode == <<1, 10, 100>>

\* C20: the mode in force has the gate divisor of its code: 0 for 0 (off),
\* 1 for 2 (10 ms), 10 for 3, 100 for 1 (1 s), 1000 for 4, 10000 for 5, 100
\* for 6 (external gate), and 500 for 7, 8, 9, which average 1, 10, 100 periods
C20_DivisorOfMode ==
    /\ fcGateTime \in ValidModes
    /\ fcprescalInit = TicksOfMode[fcGateTime + 1]
    /\ fcGateTime >= FCPRDNO => PrdCnt = PeriodsOfMode[fcGateTime - FCPRDNO + 1]

C20_Witness ==
    /\ ret.fn = "mode" /\ ret.arg = 1 /\ fcGateTime = 1 /\ fcprescalInit = 100
    /\ PrdCnt = 100 /\ modes = MaxModes

(***************************************************************************)
(* C21: what mode() leaves of the previous measurement                     *)
(***************************************************************************)
\* C21 (as stated): when mode has returned from a call it accepted, whatever
\* the mode asked for and the mode before, fcOVF is 0, fcResult is 0 and
\* _FreqCtrReady is clear
C21_Original ==
    (ret.fn = "mode" /\ ret.arg \in ValidModes)
        => (fcOVF = 0 /\ fcResult = 0 /\ FreqCtrReady = 0)

(***************************************************************************)
(* C22..C26: the timing of the handlers                                    *)
(***************************************************************************)
\* the mode in force is a timed gate
TimedGate == fcGateTime \in 1..FCEXTNO - 1

\* the step is the handling of 10 ms ticks
Ticking == Tick \/ TickRun

PeriodMode == fcGateTime >= FCPRDNO

SinceStart == Sub32(usec, ClockStart)

\* C24 (as stated): in a period mode a capture that has a capture before it
\* to measure from publishes the microseconds that passed between the two,
\* which is the clock now less the clock then modulo 2^32, also when the
\* clock has wrapped in between
C24_Original ==
    [][(PeriodMode /\ OvfISR /\ hist.stamp >= 0) =>
          /\ FreqCtrReady' = 1
          /\ fcResult' = SinceStart - hist.stamp
          /\ fcResult' = Sub32(usec, Add32(ClockStart, hist.stamp))]_vars

\* C25 (as stated): in a period mode with PrdCnt = N, a capture that has a
\* capture before it to measure from comes exactly N input pulses after that
\* one, so that what it publishes is the time of N cycles of the input
C25_Original ==
    [][(PeriodMode /\ OvfISR /\ hist.stamp >= 0) => hist.span = PrdCnt]_vars

\* the step is a 10 ms tick whose handler publishes the no-signal value
PublishesNoSignal ==
    /\ PeriodMode /\ Tick
    /\ FreqCtrReady = 0 /\ FreqCtrReady' = 1 /\ fcResult' = NoSignal

\* C26 (as stated): in a period mode every overflow interrupt restarts the
\* timeout from the full divisor, and the tick handler publishes the
\* no-signal value only when the divisor's number of ticks (500) has passed
\* without an overflow interrupt
C26_Original ==
    [][/\ (PeriodMode /\ OvfISR) => fcprescaler' = PERIODTIMOUT \div FCTIME
       /\ PublishesNoSignal => hist.ticks + 1 >= PERIODTIMOUT \div FCTIME]_vars

(***************************************************************************)
(* C27..C30: the external gate and the prescaler                           *)
(***************************************************************************)
\* the step is the gate line rising in the external gate mode, with the
\* counter running since the falling edge before
GateRisesCounting ==
    /\ fcGateTime = FCEXTNO /\ GateEdge
    /\ "gate" \in PINB' /\ "gate" \notin Changes[1]
    /\ TCCR0B # 0

\* C27 (as stated): in the external gate mode the result published on the
\* rising edge is the number of pulses counted since the falling edge, 256
\* for each wrap of the counter plus the counter, also when the overflow
\* interrupt of a wrap is pending at the edge
C27_Original ==
    [][GateRisesCounting =>
          /\ FreqCtrReady' = 1
          /\ fcResult' = Combined(hist.wraps, TCNT0)]_vars

\* what a measurement is made of: the hardware counter and its clock, the
\* accumulator, the result and the ready flag
GateState == <<TCNT0, TCCR0B, fcOVF, fcResult, FreqCtrReady>>

C29_Original ==
    [][(fcGateTime = FCEXTNO /\ fcGateTime' # FCEXTNO) => "gate" \notin PCMSK0']_vars

C31_Original ==
    (pc = "idle" /\ FreqCtrReady = 0) => hist.unread = 0

\* C32: the capture of a period never publishes the no-signal value 1, the
\* values of micros() being multiples of 4: the value 1 gets into fcResult
\* only by the timeout of the tick handler, and a formatted read prints
\* "0.00000" only of the value 1
C32_NoSignalOnlyByTimeout ==
    [][/\ (PeriodMode /\ OvfISR) => fcResult' # NoSignal
       /\ (fcResult' = NoSignal /\ fcResult # NoSignal) => (PeriodMode /\ Tick)
       /\ St' = ZeroHz => Val' = NoSignal]_vars

\* a capture one step of the clock, 4 us, after the one before has published
\* 4, which is printed fresh as too fast and not as no signal
C32_Witness ==
    /\ PeriodMode /\ pc = "sClr" /\ FreqCtrReady = 1
    /\ fcOVF = usec /\ fcResult = MicrosRes /\ Val = MicrosRes
    /\ St = <<"9", "9", "9", "9", "9", "9">>

\* a call of mode is in progress
InModeCall == pc \in {"mClr", "mRes", "mRet"}

\* C33: while the mode is Off and mode is not in progress, _FreqCtrReady is
\* clear and fcResult is 0 whatever tick, overflow or edge has been handled,
\* so available() is 0 and read(bool) returns 0
C33_OffStaysEmpty ==
    (fcGateTime = 0 /\ ~InModeCall)
        => /\ FreqCtrReady = 0 /\ fcResult = 0
           /\ available = 0
           /\ ret.fn = "readRaw" => ret.val = 0

\* mode(0) has followed another call of mode, and a waiting read(bool) has
\* returned 0 without waiting
C33_Witness ==
    /\ fcGateTime = 0 /\ modes = 2 /\ fcprescaler = 0
    /\ ret.fn = "readRaw" /\ ret.wait /\ ret.val = 0

\* C34 (as stated): when PCChangeIntFunc has handled an edge of the gate in
\* the external gate mode, the gate's bit is clear in the mask of that edge
\* (Changes[0] of a fall, Changes[1] of a rise) and the bits of every other
\* pin are in both masks as they were; in any other mode the handler leaves
\* both masks as the interrupt routine has set them
C34_Original ==
    [][GateEdge =>
          /\ \A k \in 1..2 : \A p \in Pins \ {"gate"} :
                p \in Changes'[k] <=> p \in Changes[k]
          /\ fcGateTime = FCEXTNO =>
                "gate" \notin Changes'[IF "gate" \in PINB' THEN 2 ELSE 1]
          /\ fcGateTime # FCEXTNO =>
                "gate" \in Changes'[IF "gate" \in PINB' THEN 2 ELSE 1]]_vars

\* C35: with the tick firing and the mainline running, a read that waits in
\* a timed gate or a period mode returns in the end whatever the input does,
\* unless mode is called in the meantime and makes the mode ExternalGate
C35_WaitingReadReturns ==
    (pc = "wait" /\ fcGateTime \in TickModes) ~> (ret.fn \in Reads \/ fcGateTime = FCEXTNO)

\* a waiting formatted read has returned in the 1 s gate with no input pulse
\* counted: the second gate close has published the count 0
C35_Witness ==
    /\ ret.fn = "read" /\ ret.wait /\ ret.val = 0 /\ ret.str = <<"0">>
    /\ fcGateTime = 1 /\ TCCR0B = ClockOn /\ TCNT0 = 0 /\ fcOVF = 0

\* C36 (as stated): in a period mode the timeout drops the timestamp of the
\* capture before it, whether or not the result published before has been
\* read, so that the capture after a timeout publishes nothing and every
\* measured result is the time between two captures with no timeout
\* between them
C36_Original ==
    [][/\ (PeriodMode /\ Tick /\ fcprescaler = 1) => fcOVF' = 0
       /\ (PeriodMode /\ OvfISR /\ fcOVF # 0) => hist.ticks < fcprescalInit]_vars

\* C37 (as stated): fcResult changes only when a handler publishes, setting
\* _FreqCtrReady with it, or when mode resets it; the first interval after
\* mode, which is discarded, does not write it, so read(bool) without wait
\* returns 0 from the return of mode until a result is ready
C37_Original ==
    [][fcResult' # fcResult => (ModeZero \/ ModeRes \/ FreqCtrReady' = 1)]_vars

\* C38 (as stated): in the external gate mode the handler of a gate edge sets
\* _FreqCtrReady only when the line rises after having fallen since the
\* mode was armed, and starts the counter only when the line falls: an edge
\* noted in Changes while another mode was in force starts no measurement
\* and publishes none
C38_Original ==
    [][(fcGateTime = FCEXTNO /\ GateEdge) =>
          /\ (FreqCtrReady = 0 /\ FreqCtrReady' = 1) => ("gate" \in PINB' /\ hist.fell)
          /\ (TCCR0B = 0 /\ TCCR0B' = ClockOn) => "gate" \notin PINB']_vars

(***************************************************************************)
(* The period conversion on its own: a result is ready in a period mode,   *)
(* fcResult is any period around the guard 24*PrdCnt of each mode, around  *)
(* the least period whose frequency fits 32 bits, or up to 2^32-1, and     *)
(* read(St, Wait) formats it with no interrupt while it runs               *)
(***************************************************************************)
Periods == {1, 23, 24, 25, 28, 231, 232, 233, 240, 241, 2328, 2329, 2400, 2401,
            1000000, 100000000, 2147483647, -2147483647, -1}

InitPeriods ==
    /\ fcGateTime \in FCPRDNO..FCMODEMAX
    /\ fcprescalInit = Divisor(fcGateTime)
    /\ fcprescaler \in {1, fcprescalInit}
    /\ PrdCnt = Averages(fcGateTime)
    /\ fcResult \in Periods /\ FreqCtrReady = 1 /\ fcOVF = 0
    /\ TCCR0B = ClockOn /\ TCNT0 = 0 /\ TOV0 = FALSE /\ TOIE0 = TRUE
    /\ PCMSK0 = {} /\ Changes = <<{}, {}>> /\ LastPINB = {"gate"} /\ PINB = {"gate"}
    /\ usec = ClockStart /\ window = "open"
    /\ hist = NoHist
    /\ pc = "idle" /\ call = NoCall /\ susp = NoCall /\ modes = 1
    /\ Val = 0 /\ St = <<>> /\ ret = NoRet

SpecPeriods == InitPeriods /\ [][NextFmt]_vars

RECURSIVE DivWraps(_, _)
\* some step of the division takes the quotient q*10+k past 2^32-1
DivWraps(st, v) ==
    /\ st.rest # <<>>
    /\ \/ UGt(st.q, 429496729)
       \/ st.q = 429496729 /\ DivStep(st, v).q \in 0..3
       \/ DivWraps(DivStep(st, v), v)

\* (100000000000ULL*PrdCnt)/Val does not fit an unsigned long
HzWraps(v, n) ==
    DivWraps([q |-> 0, rh |-> 0, rl |-> 0, rest |-> Digits32(n) \o Zeros(HzDigits)], v)

\* C39: whenever read(St, Wait) converts a period, that is Val > 24*PrdCnt in
\* a period mode (PrdCnt 1, 10 or 100) with a result ready, the quotient
\* 10^11*PrdCnt/Val is below 2^32, and the guard 24*PrdCnt fits an int
C39_ConversionFits ==
    (pc = "sFmt" /\ PeriodMode /\ PeriodInvertible(FreqCtrReady, Val, PrdCnt)) =>
        /\ ~HzWraps(Val, PrdCnt)
        /\ PeriodGuard * PrdCnt < 32768

\* a period of 25 us in mode 7 is converted to 4000000000, above 2^31
C39_Witness ==
    /\ pc = "sClr" /\ fcGateTime = FCPRDNO /\ FreqCtrReady = 1 /\ Val = 25
    /\ PeriodInvertible(FreqCtrReady, Val, PrdCnt)
    /\ PeriodToHz(Val, PrdCnt) = Sub32(0, 294967296)
    /\ St = <<"4", "0", "0", "0", "0", ".", "0", "0", "0", "0", "0">>

====
